---------------------------- MODULE Spec2Model ----------------------------
(***************************************************************************)
(* The keep-alive registry of gi/keep-alive.cpp: a GHashTable of Child     *)
(* records hung off a JS object, the collector's trace and finalize hooks, *)
(* the per-context global accessor and the filtered iterator.              *)
(*                                                                         *)
(* Pointers (notify functions, JSObject addresses, data) are small         *)
(* naturals, 0 being NULL.  The hash table is the set of its nodes, each   *)
(* node holding the key (a Child record, named by its allocation slot) and *)
(* the hash value GLib stored when the node was inserted; the order in     *)
(* which a GHashTableIter walks the nodes is left open.                    *)
(*                                                                         *)
(* g_assert and g_error abort the process.  g_return_if_fail logs a        *)
(* critical warning and returns, unless GLib has been told to treat        *)
(* criticals as fatal: each failing check takes that setting as an input.  *)
(* An aborted process has no state left: every variable but last falls     *)
(* back to its initial value.                                              *)
(***************************************************************************)
EXTENDS Integers, FiniteSets, Sequences, Bags, TLC

NULL == 0

\* Bounds of the model.
MaxChildren == 2        \* Child records the registry-level specification holds at once
MaxIterChildren == 3    \* Child records the iteration specification holds at once
MaxGlobalChildren == 1  \* Child records the accessor specification holds at once
MaxLiveChildren == 2    \* Child records the liveness specification holds at once
MaxObjs == 2            \* keep-alive JS objects ever allocated

Contexts == {1, 2}      \* JSContext values
MainContexts == {1}     \* the context the registry-level specifications drive
Notifiers == {0, 1, 2}  \* GjsUnrootedFunc values; 0 is a NULL notify
Handles == {1, 2}       \* addresses of child JSObjects
Datas == {0, 1}         \* void *data values
Slots == 1..(MaxIterChildren + 1)  \* addresses of Child records: one more than any table holds
Objs == 1..MaxObjs
Keys == [notify : Notifiers, child : Handles, data : Datas]
IterKeys == {k \in Keys : k.data = NULL}  \* the triples the iteration specification adds

VARIABLES
    slot,             \* slot[c]: GJS_GLOBAL_SLOT_KEEP_ALIVE of context c (an object or NULL)
    class_found,      \* class_found[c]: the class is defined on c's import global
    priv,             \* priv[o]: the KeepAlive struct behind object o
    heap,             \* heap[s]: the fields of the Child record in slot s
    fate,             \* fate[s]: what became of the Child record in slot s
    gc,               \* the collector callback in progress
    iter,             \* the caller's GjsKeepAliveIter
    calls,            \* bag of notifier invocations since the start
    visits,           \* bag of tracer invocations of the trace in progress
    objsOf,           \* objsOf[c]: the objects gjs_keep_alive_new made for c
    aborted,          \* the process has aborted
    last              \* the last call made and how it ended

vars == <<slot, class_found, priv, heap, fate, gc, iter, calls, visits,
          objsOf, aborted, last>>

----------------------------------------------------------------------------
\* Pointer arithmetic

RECURSIVE Xor(_, _)
Xor(a, b) ==
    IF a = 0 THEN b
    ELSE IF b = 0 THEN a
    ELSE (((a % 2) + (b % 2)) % 2) + (2 * Xor(a \div 2, b \div 2))

child_hash(c) == Xor(Xor(c.notify, c.child), c.data)

\* child_equal that looks at data alone
child_equal_data_only(c1, c2) == c1.data = c2.data

\* child_equal that compares the child pointers alone
child_equal_handle_only(c1, c2) == c1.child = c2.child

child_equal(c1, c2) ==
    c1.data = c2.data /\ c1.child = c2.child /\ c1.notify = c2.notify

----------------------------------------------------------------------------
\* GHashTable, keyed and valued by the same Child

ZeroChild == [notify |-> NULL, child |-> NULL, data |-> NULL]

Node(s, H) == [k |-> s, h |-> child_hash(H[s])]

\* the nodes a lookup of key c can land on: stored hash first, then the
\* key_equal_func
HTMatch(T, H, c) == {n \in T : n.h = child_hash(c) /\ child_equal(H[n.k], c)}

HTKeys(T) == {n.k : n \in T}

\* g_hash_table_iter_steal at the node of slot s
HTSteal(T, s) == {n \in T : n.k # s}

\* g_hash_table_replace(children, child, child) of the Child in slot s: a
\* node whose key equals it is overwritten and its old value goes to
\* child_free
HTReplace(T, H, s) ==
    LET old == {n \in HTMatch(T, H, H[s]) : n.k # s} IN
    [children |-> (T \ old) \cup {Node(s, H)}, freed |-> HTKeys(old)]

\* the (notifier, handle, data) triples a table holds
Triples(T, H) == {H[s] : s \in HTKeys(T)}

MinOf(S) == CHOOSE x \in S : \A y \in S : x <= y

MaxOf(S) == CHOOSE x \in S : \A y \in S : x >= y

----------------------------------------------------------------------------
\* Objects and records

NoPriv == [st |-> "none", children |-> {}, inside_finalize |-> FALSE,
           inside_trace |-> FALSE]

\* the prototype JS_InitClass makes for context c: an object of the class
\* without private data
ProtoOf(c) == 0 - c

Protos == {ProtoOf(c) : c \in {d \in Contexts : class_found[d]}}

\* JS_GetPrivate(o) # NULL
HasPriv(P, o) == o \in Objs /\ P[o].st = "live"

\* what the tracer does to the address of a child: the collector moves
\* distinct objects to distinct addresses
Relocs == {m \in [Handles -> Handles] : \A a, b \in Handles : m[a] = m[b] => a = b}

IdReloc == [h \in Handles |-> h]

Idle == [kind |-> "idle", obj |-> NULL, visited |-> {}, reinsert |-> <<>>,
         reloc |-> IdReloc, cur |-> NULL, start |-> {}]

\* the Child records a table holds, each with the slot it lives in
Entries(T, H) ==
    {[k |-> s, notify |-> H[s].notify, child |-> H[s].child, data |-> H[s].data] :
        s \in HTKeys(T)}

TripleOf(e) == [notify |-> e.notify, child |-> e.child, data |-> e.data]

NoFilter == 0 - 1

NoIter == [st |-> "none", obj |-> NULL, visited |-> {}, filter |-> NoFilter,
           yielded |-> EmptyBag]

\* What is recorded of a call: op on the context or object `on`; ret is
\* "ok", "critical" (returned after a critical warning) or "abort"; val is
\* the object returned, 1 or 0 for a key found or not, or a count; pre is
\* what held when the call was made; changed: the call altered a table, a
\* flag or a Child record.
Last(op, ret, on, val, pre, changed) ==
    [op |-> op, ret |-> ret, on |-> on, val |-> val, held |-> pre.held,
     mode |-> pre.mode, changed |-> changed]

NoPre == [held |-> FALSE, mode |-> "none"]

Hit == 1
Miss == 0

\* the part of the state the entry points read and write
Cur == [slot |-> slot, class_found |-> class_found, objsOf |-> objsOf,
        priv |-> priv, heap |-> heap, fate |-> fate]

Ret(S, ret, val) == [st |-> S, ret |-> ret, val |-> val]

\* g_return_if_fail on a failed check
Critical(S, fatal) == Ret(S, IF fatal THEN "abort" ELSE "critical", Miss)

FreeSlots(S) == {s \in Slots : S.fate[s] # "live"}

UnusedObjs(S) == {o \in Objs : S.priv[o].st = "none"}

Live == {s \in Slots : fate[s] = "live"}

----------------------------------------------------------------------------
\* Initial state: no context has a registry yet

Init ==
    /\ slot = [c \in Contexts |-> NULL]
    /\ class_found = [c \in Contexts |-> FALSE]
    /\ priv = [o \in Objs |-> NoPriv]
    /\ heap = [s \in Slots |-> ZeroChild]
    /\ fate = [s \in Slots |-> "unused"]
    /\ gc = Idle
    /\ iter = NoIter
    /\ calls = EmptyBag
    /\ visits = EmptyBag
    /\ objsOf = [c \in Contexts |-> {}]
    /\ aborted = FALSE
    /\ last = Last("none", "ok", NULL, NULL, NoPre, FALSE)

Abort(op, on, pre) ==
    /\ slot' = [c \in Contexts |-> NULL]
    /\ class_found' = [c \in Contexts |-> FALSE]
    /\ priv' = [o \in Objs |-> NoPriv]
    /\ heap' = [s \in Slots |-> ZeroChild]
    /\ fate' = [s \in Slots |-> "unused"]
    /\ gc' = Idle
    /\ iter' = NoIter
    /\ calls' = EmptyBag
    /\ visits' = EmptyBag
    /\ objsOf' = [c \in Contexts |-> {}]
    /\ aborted' = TRUE
    /\ last' = Last(op, "abort", on, NULL, pre, FALSE)

\* Code outside the collector runs between collector callbacks, inside a
\* tracer call of a trace pass, and inside a notifier finalize is calling.
UserCode ==
    /\ ~aborted
    /\ \/ gc.kind = "idle"
       \/ gc.kind = "trace"
       \/ gc.kind = "finalize" /\ gc.cur # NULL

\* the objects a caller can hold: those the accessor has handed out and the
\* collector has not yet freed
Registries == {o \in Objs : priv[o].st = "live"}

\* a GHashTableIter over a table that has since been modified
StaleIter == [NoIter EXCEPT !.st = "stale"]

Touch(I, P) ==
    IF I.st \in {"active", "done"} /\ P[I.obj] # priv[I.obj]
    THEN StaleIter ELSE I

\* an entry point returns (or aborts) with result r
Return(op, on, pre, r) ==
    IF r.ret = "abort" THEN Abort(op, on, pre)
    ELSE /\ slot' = r.st.slot
         /\ class_found' = r.st.class_found
         /\ objsOf' = r.st.objsOf
         /\ priv' = r.st.priv
         /\ heap' = r.st.heap
         /\ fate' = r.st.fate
         /\ iter' = Touch(iter, r.st.priv)
         /\ last' = Last(op, r.ret, on, r.val, pre, r.st # Cur)
         /\ UNCHANGED <<gc, calls, visits, aborted>>

----------------------------------------------------------------------------
\* The global accessor

\* gjs_keep_alive_new: the object it returns; when the class or the object
\* cannot be made (ok = FALSE) it ends in g_error, here or in its caller
gjs_keep_alive_new(S, c, ok) ==
    IF ~ok THEN Ret(S, "abort", NULL)
    ELSE LET o == MinOf(UnusedObjs(S)) IN
         Ret([S EXCEPT !.priv[o] = [NoPriv EXCEPT !.st = "live"],
                       !.class_found[c] = TRUE,
                       !.objsOf[c] = @ \cup {o}],
             "ok", o)

gjs_keep_alive_create(S, c, ok) ==
    LET n == gjs_keep_alive_new(S, c, ok) IN
    IF n.ret = "abort" THEN n
    ELSE Ret([n.st EXCEPT !.slot[c] = n.val], "ok", n.val)

get_global_if_exists(S, c) == S.slot[c]

\* get_global without the look at the slot
get_global_always_create(S, c, ok) == gjs_keep_alive_create(S, c, ok)

get_global(S, c, ok) ==
    IF get_global_if_exists(S, c) # NULL
    THEN Ret(S, "ok", get_global_if_exists(S, c))
    ELSE gjs_keep_alive_create(S, c, ok)

\* the inputs of a call that may have to construct: construction needs a
\* free object, and ok is read only when constructing; a slot is not read
\* after its object has been finalized
CanGet(c, ok) ==
    IF slot[c] # NULL THEN ok /\ priv[slot[c]].st = "live"
    ELSE UnusedObjs(Cur) # {}

\* get_global_if_exists that falls through to construction, as get_global does
get_global_if_exists_creating(c) ==
    /\ UserCode
    /\ CanGet(c, TRUE)
    /\ Return("get_global_if_exists", c, NoPre, get_global(Cur, c, TRUE))

gjs_keep_alive_get_global_if_exists(c) ==
    /\ UserCode
    /\ slot[c] # NULL => priv[slot[c]].st = "live"
    /\ Return("get_global_if_exists", c, NoPre, Ret(Cur, "ok", get_global_if_exists(Cur, c)))

gjs_keep_alive_get_global(c, ok) ==
    /\ UserCode
    /\ CanGet(c, ok)
    /\ Return("get_global", c, NoPre, get_global(Cur, c, ok))

----------------------------------------------------------------------------
\* add and remove

\* add_child without the lookup of an equal Child
add_child_unchecked(S, o, k, fatal) ==
    IF ~HasPriv(S.priv, o) THEN Ret(S, "abort", Miss)
    ELSE IF S.priv[o].inside_trace THEN Critical(S, fatal)
    ELSE IF S.priv[o].inside_finalize THEN Critical(S, fatal)
    ELSE LET s == MinOf(FreeSlots(S))
             H == [S.heap EXCEPT ![s] = k]
             r == HTReplace(S.priv[o].children, H, s)
         IN Ret([S EXCEPT
                   !.priv[o].children = r.children,
                   !.heap = [t \in Slots |-> IF t \in r.freed THEN ZeroChild ELSE H[t]],
                   !.fate = [t \in Slots |-> IF t = s THEN "live"
                                             ELSE IF t \in r.freed THEN "replaced"
                                             ELSE S.fate[t]]],
                "ok", Miss)

\* add_child that leaves child->data as g_slice_new0 made it
add_child_data_dropped(S, o, k, fatal) ==
    IF ~HasPriv(S.priv, o) THEN Ret(S, "abort", Miss)
    ELSE IF S.priv[o].inside_trace THEN Critical(S, fatal)
    ELSE IF S.priv[o].inside_finalize THEN Critical(S, fatal)
    ELSE IF HTMatch(S.priv[o].children, S.heap, [k EXCEPT !.data = NULL]) # {}
         THEN [Critical(S, fatal) EXCEPT !.val = Hit]
    ELSE LET s == MinOf(FreeSlots(S))
             H == [S.heap EXCEPT ![s] = [k EXCEPT !.data = NULL]]
             r == HTReplace(S.priv[o].children, H, s)
         IN Ret([S EXCEPT
                   !.priv[o].children = r.children,
                   !.heap = [t \in Slots |-> IF t \in r.freed THEN ZeroChild ELSE H[t]],
                   !.fate = [t \in Slots |-> IF t = s THEN "live"
                                             ELSE IF t \in r.freed THEN "replaced"
                                             ELSE S.fate[t]]],
                "ok", Miss)

add_child(S, o, k, fatal) ==
    IF ~HasPriv(S.priv, o) THEN Ret(S, "abort", Miss)
    ELSE IF S.priv[o].inside_trace THEN Critical(S, fatal)
    ELSE IF S.priv[o].inside_finalize THEN Critical(S, fatal)
    ELSE IF HTMatch(S.priv[o].children, S.heap, k) # {}
         \* the Child just allocated is never freed on this path
         THEN [Critical(S, fatal) EXCEPT !.val = Hit]
    ELSE LET s == MinOf(FreeSlots(S))
             H == [S.heap EXCEPT ![s] = k]
             r == HTReplace(S.priv[o].children, H, s)
         IN Ret([S EXCEPT
                   !.priv[o].children = r.children,
                   !.heap = [t \in Slots |-> IF t \in r.freed THEN ZeroChild ELSE H[t]],
                   !.fate = [t \in Slots |-> IF t = s THEN "live"
                                             ELSE IF t \in r.freed THEN "replaced"
                                             ELSE S.fate[t]]],
                "ok", Miss)

\* remove_child without the two reentrancy checks
remove_child_unguarded(S, o, k, fatal) ==
    IF ~HasPriv(S.priv, o) THEN Ret(S, "abort", Miss)
    ELSE LET m == HTMatch(S.priv[o].children, S.heap, k) IN
         IF m = {} THEN Ret(S, "ok", Miss)
         ELSE LET n == CHOOSE x \in m : TRUE IN
              Ret([S EXCEPT !.priv[o].children = @ \ {n},
                            !.heap[n.k] = ZeroChild,
                            !.fate[n.k] = "unused"],
                  "ok", Hit)

\* remove_child whose reentrancy checks warn and carry on
remove_child_warn_only(S, o, k, fatal) ==
    IF ~HasPriv(S.priv, o) THEN Ret(S, "abort", Miss)
    ELSE LET m == HTMatch(S.priv[o].children, S.heap, k)
             warned == S.priv[o].inside_trace \/ S.priv[o].inside_finalize
         IN IF warned /\ fatal THEN Ret(S, "abort", Miss)
            ELSE IF m = {} THEN Ret(S, IF warned THEN "critical" ELSE "ok", Miss)
            ELSE LET n == CHOOSE x \in m : TRUE IN
                 Ret([S EXCEPT !.priv[o].children = @ \ {n},
                               !.heap[n.k] = ZeroChild,
                               !.fate[n.k] = "unused"],
                     IF warned THEN "critical" ELSE "ok", Hit)

remove_child(S, o, k, fatal) ==
    IF ~HasPriv(S.priv, o) THEN Ret(S, "abort", Miss)
    ELSE IF S.priv[o].inside_trace THEN Critical(S, fatal)
    ELSE IF S.priv[o].inside_finalize THEN Critical(S, fatal)
    ELSE LET m == HTMatch(S.priv[o].children, S.heap, k) IN
         IF m = {} THEN Ret(S, "ok", Miss)
         ELSE LET n == CHOOSE x \in m : TRUE IN
              Ret([S EXCEPT !.priv[o].children = @ \ {n},
                            !.heap[n.k] = ZeroChild,
                            !.fate[n.k] = "unused"],
                  "ok", Hit)

\* (* child->notify) (child->child, child->data)
CallOf(s) == [k |-> s, notify |-> heap[s].notify, child |-> heap[s].child,
              data |-> heap[s].data, during |-> gc.kind, was |-> fate[s]]

\* what holds of registry o and triple k when a call is made
Pre(o, k) ==
    [held |-> HasPriv(priv, o) /\ k \in Triples(priv[o].children, heap),
     mode |-> IF ~HasPriv(priv, o) THEN "none"
              ELSE IF priv[o].inside_trace \/ priv[o].inside_finalize THEN "guarded"
              ELSE "open"]

gjs_keep_alive_add_child(o, k, fatal) ==
    /\ UserCode
    /\ o \in Registries
    /\ Return("add_child", o, Pre(o, k), add_child(Cur, o, k, fatal))

\* a remove that calls the notifier of the Child it removes, as finalize does
remove_child_notifying(o, k, fatal) ==
    /\ UserCode
    /\ o \in Registries
    /\ LET r == remove_child(Cur, o, k, fatal)
           gone == HTKeys(priv[o].children) \ HTKeys(r.st.priv[o].children)
       IN IF r.ret = "ok" /\ r.val = Hit
          THEN /\ priv' = r.st.priv /\ heap' = r.st.heap /\ fate' = r.st.fate
               /\ calls' = calls (+) SetToBag({CallOf(s) : s \in gone})
               /\ iter' = Touch(iter, r.st.priv)
               /\ last' = Last("remove_child", "ok", o, Hit, Pre(o, k), TRUE)
               /\ UNCHANGED <<slot, class_found, objsOf, gc, visits, aborted>>
          ELSE Return("remove_child", o, Pre(o, k), r)

gjs_keep_alive_remove_child(o, k, fatal) ==
    /\ UserCode
    /\ o \in Registries
    /\ Return("remove_child", o, Pre(o, k), remove_child(Cur, o, k, fatal))

gjs_keep_alive_add_global_child(c, k, ok, fatal) ==
    /\ UserCode
    /\ CanGet(c, ok)
    /\ LET g == get_global(Cur, c, ok) IN
       Return("add_global_child", c, Pre(slot[c], k),
              IF g.ret = "abort" THEN g
              ELSE add_child(g.st, g.val, k, fatal))

gjs_keep_alive_remove_global_child(c, k, ok, fatal) ==
    /\ UserCode
    /\ CanGet(c, ok)
    /\ LET g == get_global(Cur, c, ok) IN
       Return("remove_global_child", c, Pre(slot[c], k),
              IF g.ret = "abort" THEN g
              ELSE IF g.val = NULL THEN Ret(g.st, "abort", NULL)
              ELSE remove_child(g.st, g.val, k, fatal))

----------------------------------------------------------------------------
\* The collector's hooks

child_free(H, F, s, why) ==
    [heap |-> [H EXCEPT ![s] = ZeroChild], fate |-> [F EXCEPT ![s] = why]]

\* the objects of the class the collector knows
Hooked == Registries \cup Protos

\* keep_alive_finalize up to the loop
keep_alive_finalize(o) ==
    /\ ~aborted
    /\ gc.kind = "idle"
    /\ o \in Hooked
    /\ IF ~HasPriv(priv, o)
       THEN UNCHANGED <<priv, gc>>
       ELSE /\ priv' = [priv EXCEPT ![o].inside_finalize = TRUE]
            /\ gc' = [Idle EXCEPT !.kind = "finalize", !.obj = o,
                                  !.start = Entries(priv[o].children, heap)]
    /\ iter' = Touch(iter, priv')
    /\ last' = Last("finalize", "ok", o, NULL, NoPre, TRUE)
    /\ UNCHANGED <<slot, class_found, heap, fate, calls, visits, objsOf,
                   aborted>>

\* finalize_next without g_hash_table_iter_steal
finalize_next_no_steal(s) ==
    /\ ~aborted
    /\ gc.kind = "finalize" /\ gc.cur = NULL
    /\ s \in HTKeys(priv[gc.obj].children) \ gc.visited
    /\ IF heap[s].notify # NULL
       THEN /\ calls' = calls (+) SetToBag({CallOf(s)})
            /\ gc' = [gc EXCEPT !.visited = @ \cup {s}, !.cur = s]
            /\ UNCHANGED <<heap, fate>>
       ELSE /\ gc' = [gc EXCEPT !.visited = @ \cup {s}]
            /\ heap' = child_free(heap, fate, s, "finalized").heap
            /\ fate' = child_free(heap, fate, s, "finalized").fate
            /\ UNCHANGED calls
    /\ last' = Last("finalize", "ok", gc.obj, NULL, NoPre, TRUE)
    /\ UNCHANGED <<slot, class_found, priv, iter, visits, objsOf, aborted>>

\* one turn of the loop, up to the return of the notifier: the iterator
\* moves to the node of slot s, the node is stolen, the notifier is called
finalize_next(s) ==
    /\ ~aborted
    /\ gc.kind = "finalize" /\ gc.cur = NULL
    /\ s \in HTKeys(priv[gc.obj].children) \ gc.visited
    /\ priv' = [priv EXCEPT ![gc.obj].children = HTSteal(@, s)]
    /\ IF heap[s].notify # NULL
       THEN /\ calls' = calls (+) SetToBag({CallOf(s)})
            /\ gc' = [gc EXCEPT !.visited = @ \cup {s}, !.cur = s]
            /\ UNCHANGED <<heap, fate>>
       ELSE /\ gc' = [gc EXCEPT !.visited = @ \cup {s}]
            /\ heap' = child_free(heap, fate, s, "finalized").heap
            /\ fate' = child_free(heap, fate, s, "finalized").fate
            /\ UNCHANGED calls
    /\ iter' = Touch(iter, priv')
    /\ last' = Last("finalize", "ok", gc.obj, NULL, NoPre, TRUE)
    /\ UNCHANGED <<slot, class_found, visits, objsOf, aborted>>

\* finalize_notified that never gets past the notifier
finalize_notified_stuck ==
    /\ ~aborted
    /\ gc.kind = "finalize" /\ gc.cur # NULL
    /\ last' = Last("finalize", "ok", gc.obj, NULL, NoPre, FALSE)
    /\ UNCHANGED <<slot, class_found, priv, heap, fate, gc, iter, calls,
                   visits, objsOf, aborted>>

\* the notifier returns and the Child is freed
finalize_notified ==
    /\ ~aborted
    /\ gc.kind = "finalize" /\ gc.cur # NULL
    /\ heap' = child_free(heap, fate, gc.cur, "finalized").heap
    /\ fate' = child_free(heap, fate, gc.cur, "finalized").fate
    /\ gc' = [gc EXCEPT !.cur = NULL]
    /\ last' = Last("finalize", "ok", gc.obj, NULL, NoPre, TRUE)
    /\ UNCHANGED <<slot, class_found, priv, iter, calls, visits, objsOf,
                   aborted>>

\* the loop is over: g_hash_table_destroy frees what the table still holds,
\* then the KeepAlive is freed.  The freed record keeps the table as it was
\* when it was destroyed, and gc keeps what the finalized registry held.
finalize_done ==
    /\ ~aborted
    /\ gc.kind = "finalize" /\ gc.cur = NULL
    /\ HTKeys(priv[gc.obj].children) \subseteq gc.visited
    /\ LET left == HTKeys(priv[gc.obj].children) IN
       /\ heap' = [s \in Slots |-> IF s \in left THEN ZeroChild ELSE heap[s]]
       /\ fate' = [s \in Slots |-> IF s \in left THEN "destroyed" ELSE fate[s]]
    /\ priv' = [priv EXCEPT ![gc.obj].st = "freed"]
    /\ gc' = [Idle EXCEPT !.obj = gc.obj, !.start = gc.start]
    /\ iter' = Touch(iter, priv')
    /\ last' = Last("finalize", "ok", gc.obj, NULL, NoPre, TRUE)
    /\ UNCHANGED <<slot, class_found, calls, visits, objsOf, aborted>>

\* what holds of object o when the collector calls its trace hook
TracePre(o) ==
    [held |-> FALSE,
     mode |-> IF ~HasPriv(priv, o) THEN "none"
              ELSE IF priv[o].inside_trace THEN "guarded"
              ELSE "open"]

\* keep_alive_trace up to the loop; m is how this pass moves the children.
\* A trace entered while a trace of the same object is running fails the
\* assertion.
keep_alive_trace(o, m) ==
    /\ ~aborted
    /\ o \in Hooked
    /\ \/ gc.kind = "idle"
       \/ gc.kind = "trace" /\ gc.obj = o /\ m = gc.reloc
    /\ IF ~HasPriv(priv, o)
       THEN /\ last' = Last("trace", "ok", o, NULL, TracePre(o), FALSE)
            /\ UNCHANGED <<slot, class_found, priv, heap, fate, gc, iter,
                           calls, visits, objsOf, aborted>>
       ELSE IF priv[o].inside_trace
       THEN Abort("trace", o, TracePre(o))
       ELSE /\ priv' = [priv EXCEPT ![o].inside_trace = TRUE]
            /\ gc' = [Idle EXCEPT !.kind = "trace", !.obj = o, !.reloc = m,
                                  !.start = Entries(priv[o].children, heap)]
            /\ visits' = EmptyBag
            /\ iter' = Touch(iter, priv')
            /\ last' = Last("trace", "ok", o, NULL, TracePre(o), TRUE)
            /\ UNCHANGED <<slot, class_found, heap, fate, calls, objsOf,
                           aborted>>

\* trace_next that leaves a moved Child in its node
trace_next_in_place(s) ==
    /\ ~aborted
    /\ gc.kind = "trace"
    /\ s \in HTKeys(priv[gc.obj].children) \ gc.visited
    /\ visits' = visits (+) SetToBag({[k |-> s, child |-> heap[s].child]})
    /\ heap' = [heap EXCEPT ![s].child = gc.reloc[heap[s].child]]
    /\ gc' = [gc EXCEPT !.visited = @ \cup {s}]
    /\ last' = Last("trace", "ok", gc.obj, NULL, NoPre, TRUE)
    /\ UNCHANGED <<slot, class_found, priv, iter, fate, calls, objsOf, aborted>>

\* trace_next that steals every node and stages only the moved Childs
trace_next_steal_always(s) ==
    /\ ~aborted
    /\ gc.kind = "trace"
    /\ s \in HTKeys(priv[gc.obj].children) \ gc.visited
    /\ visits' = visits (+) SetToBag({[k |-> s, child |-> heap[s].child]})
    /\ heap' = [heap EXCEPT ![s].child = gc.reloc[heap[s].child]]
    /\ priv' = [priv EXCEPT ![gc.obj].children = HTSteal(@, s)]
    /\ gc' = [gc EXCEPT !.visited = @ \cup {s},
                        !.reinsert = IF gc.reloc[heap[s].child] # heap[s].child
                                     THEN <<s>> \o @ ELSE @]
    /\ iter' = Touch(iter, priv')
    /\ last' = Last("trace", "ok", gc.obj, NULL, NoPre, TRUE)
    /\ UNCHANGED <<slot, class_found, fate, calls, objsOf, aborted>>

\* trace_next that puts a moved Child back at once, in the middle of the scan
trace_next_reinsert_now(s) ==
    /\ ~aborted
    /\ gc.kind = "trace"
    /\ s \in HTKeys(priv[gc.obj].children) \ gc.visited
    /\ LET old_key == heap[s].child
           new_key == gc.reloc[old_key]
           H == [heap EXCEPT ![s].child = new_key]
           r == HTReplace(HTSteal(priv[gc.obj].children, s), H, s)
       IN /\ visits' = visits (+) SetToBag({[k |-> s, child |-> old_key]})
          /\ gc' = [gc EXCEPT !.visited = @ \cup {s}]
          /\ IF new_key # old_key
             THEN /\ priv' = [priv EXCEPT ![gc.obj].children = r.children]
                  /\ heap' = [t \in Slots |-> IF t \in r.freed THEN ZeroChild ELSE H[t]]
                  /\ fate' = [t \in Slots |-> IF t \in r.freed THEN "replaced" ELSE fate[t]]
             ELSE /\ heap' = H
                  /\ UNCHANGED <<priv, fate>>
    /\ iter' = Touch(iter, priv')
    /\ last' = Last("trace", "ok", gc.obj, NULL, NoPre, TRUE)
    /\ UNCHANGED <<slot, class_found, calls, objsOf, aborted>>

\* trace_next whose scan ends at the first moved Child
trace_next_stops_at_moved(s) ==
    /\ ~aborted
    /\ gc.kind = "trace"
    /\ s \in HTKeys(priv[gc.obj].children) \ gc.visited
    /\ LET old_key == heap[s].child
           new_key == gc.reloc[old_key]
       IN /\ visits' = visits (+) SetToBag({[k |-> s, child |-> old_key]})
          /\ heap' = [heap EXCEPT ![s].child = new_key]
          /\ IF new_key # old_key
             THEN /\ priv' = [priv EXCEPT ![gc.obj].children = HTSteal(@, s)]
                  /\ gc' = [gc EXCEPT
                              !.visited = @ \cup HTKeys(priv[gc.obj].children),
                              !.reinsert = <<s>> \o @]
             ELSE /\ gc' = [gc EXCEPT !.visited = @ \cup {s}]
                  /\ UNCHANGED priv
    /\ iter' = Touch(iter, priv')
    /\ last' = Last("trace", "ok", gc.obj, NULL, NoPre, TRUE)
    /\ UNCHANGED <<slot, class_found, fate, calls, objsOf, aborted>>

\* one turn of the loop: the tracer is shown the child of slot s and may
\* move it; a moved Child is stolen and staged
trace_next(s) ==
    /\ ~aborted
    /\ gc.kind = "trace"
    /\ s \in HTKeys(priv[gc.obj].children) \ gc.visited
    /\ LET old_key == heap[s].child
           new_key == gc.reloc[old_key]
       IN /\ visits' = visits (+) SetToBag({[k |-> s, child |-> old_key]})
          /\ heap' = [heap EXCEPT ![s].child = new_key]
          /\ IF new_key # old_key
             THEN /\ priv' = [priv EXCEPT ![gc.obj].children = HTSteal(@, s)]
                  /\ gc' = [gc EXCEPT !.visited = @ \cup {s},
                                      !.reinsert = <<s>> \o @]
             ELSE /\ gc' = [gc EXCEPT !.visited = @ \cup {s}]
                  /\ UNCHANGED priv
    /\ iter' = Touch(iter, priv')
    /\ last' = Last("trace", "ok", gc.obj, NULL, NoPre, TRUE)
    /\ UNCHANGED <<slot, class_found, fate, calls, objsOf, aborted>>

\* g_slist_foreach(children_to_reinsert, reinsert, children)
RECURSIVE reinsert(_, _, _, _)
reinsert(list, T, H, F) ==
    IF list = <<>> THEN [children |-> T, heap |-> H, fate |-> F]
    ELSE LET r == HTReplace(T, H, Head(list)) IN
         IF r.freed = {} THEN reinsert(Tail(list), r.children, H, F)
         ELSE reinsert(Tail(list), r.children,
                       [t \in Slots |-> IF t \in r.freed THEN ZeroChild ELSE H[t]],
                       [t \in Slots |-> IF t \in r.freed THEN "replaced" ELSE F[t]])

\* trace_done that returns without resetting inside_trace
trace_done_flag_kept ==
    /\ ~aborted
    /\ gc.kind = "trace"
    /\ HTKeys(priv[gc.obj].children) \subseteq gc.visited
    /\ LET r == reinsert(gc.reinsert, priv[gc.obj].children, heap, fate) IN
       /\ priv' = [priv EXCEPT ![gc.obj].children = r.children]
       /\ heap' = r.heap
       /\ fate' = r.fate
    /\ gc' = Idle
    /\ visits' = EmptyBag
    /\ iter' = Touch(iter, priv')
    /\ last' = Last("trace_done", "ok", gc.obj, Len(gc.reinsert), NoPre, TRUE)
    /\ UNCHANGED <<slot, class_found, calls, objsOf, aborted>>

\* the loop is over: the staged Childs go back in, the flag is reset
trace_done ==
    /\ ~aborted
    /\ gc.kind = "trace"
    /\ HTKeys(priv[gc.obj].children) \subseteq gc.visited
    /\ last' = Last("trace_done", "ok", gc.obj, Len(gc.reinsert), NoPre, TRUE)
    /\ gc' = Idle
    /\ visits' = EmptyBag
    /\ LET r == reinsert(gc.reinsert, priv[gc.obj].children, heap, fate) IN
       /\ priv' = [priv EXCEPT ![gc.obj].children = r.children,
                               ![gc.obj].inside_trace = FALSE]
       /\ heap' = r.heap
       /\ fate' = r.fate
    /\ iter' = Touch(iter, priv')
    /\ UNCHANGED <<slot, class_found, calls, objsOf, aborted>>

----------------------------------------------------------------------------
\* The iterator

gjs_keep_alive_iterator_init(o) ==
    /\ UserCode
    /\ o \in Registries
    /\ iter' = [NoIter EXCEPT !.st = "active", !.obj = o]
    /\ last' = Last("iterator_init", "ok", o, NULL, NoPre, FALSE)
    /\ UNCHANGED <<slot, class_found, priv, heap, fate, gc, calls, visits,
                   objsOf, aborted>>

\* iterator_next without the comparison of notify
iterator_next_unfiltered(notify_func) ==
    /\ UserCode
    /\ iter.st \in {"active", "done"}
    /\ iter.filter \in {NoFilter, notify_func}
    /\ LET rest == HTKeys(priv[iter.obj].children) \ iter.visited
       IN \/ \E s \in rest :
               /\ iter' = [iter EXCEPT
                             !.filter = notify_func,
                             !.visited = @ \cup {s},
                             !.yielded = @ (+) SetToBag(
                                 {[child |-> heap[s].child, data |-> heap[s].data]})]
               /\ last' = Last("iterator_next", "ok", iter.obj, Hit, NoPre, FALSE)
          \/ /\ rest = {}
             /\ iter' = [iter EXCEPT !.filter = notify_func, !.st = "done"]
             /\ last' = Last("iterator_next", "ok", iter.obj, Miss, NoPre, FALSE)
    /\ UNCHANGED <<slot, class_found, priv, heap, fate, gc, calls, visits,
                   objsOf, aborted>>

\* One call: the hash iterator runs over nodes not yet seen, past those
\* whose notify differs, to the first one whose notify is notify_func (the
\* call returns it) or to the end (the call returns false).  A traversal is
\* driven with one notify_func, over a table that is not modified meanwhile.
gjs_keep_alive_iterator_next(notify_func) ==
    /\ UserCode
    /\ iter.st \in {"active", "done"}
    /\ iter.filter \in {NoFilter, notify_func}
    /\ LET rest == HTKeys(priv[iter.obj].children) \ iter.visited
           hits == {s \in rest : heap[s].notify = notify_func}
       IN \/ \E s \in hits : \E skipped \in SUBSET (rest \ hits) :
               /\ iter' = [iter EXCEPT
                             !.filter = notify_func,
                             !.visited = @ \cup skipped \cup {s},
                             !.yielded = @ (+) SetToBag(
                                 {[child |-> heap[s].child, data |-> heap[s].data]})]
               /\ last' = Last("iterator_next", "ok", iter.obj, Hit, NoPre, FALSE)
          \/ /\ hits = {}
             /\ iter' = [iter EXCEPT !.filter = notify_func, !.st = "done",
                                     !.visited = @ \cup rest]
             /\ last' = Last("iterator_next", "ok", iter.obj, Miss, NoPre, FALSE)
    /\ UNCHANGED <<slot, class_found, priv, heap, fate, gc, calls, visits,
                   objsOf, aborted>>

----------------------------------------------------------------------------
\* Specifications

\* an insertion keeps the number of Child records within n
Fits(n, r) ==
    r.ret = "ok" => Cardinality({s \in Slots : r.st.fate[s] = "live"}) <= n

AllObjs == Objs \cup {ProtoOf(c) : c \in Contexts}

\* the registry of one context: add, remove, trace and finalize
Next ==
    \/ \E c \in MainContexts, ok \in BOOLEAN : gjs_keep_alive_get_global(c, ok)
    \/ \E o \in Objs, k \in Keys, fatal \in BOOLEAN :
           /\ Fits(MaxChildren, add_child(Cur, o, k, fatal))
           /\ gjs_keep_alive_add_child(o, k, fatal)
    \/ \E o \in Objs, k \in Keys, fatal \in BOOLEAN :
           gjs_keep_alive_remove_child(o, k, fatal)
    \/ \E o \in AllObjs : keep_alive_finalize(o)
    \/ \E s \in Slots : finalize_next(s)
    \/ finalize_notified
    \/ finalize_done
    \/ \E o \in AllObjs, m \in Relocs : keep_alive_trace(o, m)
    \/ \E s \in Slots : trace_next(s)
    \/ trace_done

Spec == Init /\ [][Next]_vars

\* The collector's callbacks are straight-line code: once entered, a loop
\* takes its next turn, a notifier that was called returns, and the code
\* after the loop runs.
Proceed ==
    \/ \E s \in Slots : finalize_next(s)
    \/ finalize_notified
    \/ finalize_done
    \/ \E s \in Slots : trace_next(s)
    \/ trace_done

CallbacksProceed == WF_vars(Proceed)

\* the registry of one context under a collector that proceeds: add and
\* remove of triples without data, trace and finalize
NextLive ==
    \/ \E c \in MainContexts, ok \in BOOLEAN : gjs_keep_alive_get_global(c, ok)
    \/ \E o \in Objs, k \in IterKeys, fatal \in BOOLEAN :
           /\ Fits(MaxLiveChildren, add_child(Cur, o, k, fatal))
           /\ gjs_keep_alive_add_child(o, k, fatal)
    \/ \E o \in Objs, k \in IterKeys, fatal \in BOOLEAN :
           gjs_keep_alive_remove_child(o, k, fatal)
    \/ \E o \in AllObjs : keep_alive_finalize(o)
    \/ \E s \in Slots : finalize_next(s)
    \/ finalize_notified
    \/ finalize_done
    \/ \E o \in AllObjs, m \in Relocs : keep_alive_trace(o, m)
    \/ \E s \in Slots : trace_next(s)
    \/ trace_done

SpecLive == Init /\ [][NextLive]_vars /\ CallbacksProceed

\* the registry of one context: add, remove and iterate
NextIter ==
    \/ \E c \in MainContexts, ok \in BOOLEAN : gjs_keep_alive_get_global(c, ok)
    \/ \E o \in Objs, k \in IterKeys, fatal \in BOOLEAN :
           /\ Fits(MaxIterChildren, add_child(Cur, o, k, fatal))
           /\ gjs_keep_alive_add_child(o, k, fatal)
    \/ \E o \in Objs, k \in IterKeys, fatal \in BOOLEAN :
           gjs_keep_alive_remove_child(o, k, fatal)
    \/ \E o \in Objs : gjs_keep_alive_iterator_init(o)
    \/ \E f \in Notifiers : gjs_keep_alive_iterator_next(f)

SpecIter == Init /\ [][NextIter]_vars

\* the accessor of every context
NextGlobal ==
    \/ \E c \in Contexts : gjs_keep_alive_get_global_if_exists(c)
    \/ \E c \in Contexts, ok \in BOOLEAN : gjs_keep_alive_get_global(c, ok)
    \/ \E c \in Contexts, k \in Keys, ok, fatal \in BOOLEAN :
           /\ LET g == get_global(Cur, c, ok) IN
              g.ret = "ok" => Fits(MaxGlobalChildren, add_child(g.st, g.val, k, fatal))
           /\ gjs_keep_alive_add_global_child(c, k, ok, fatal)
    \/ \E c \in Contexts, k \in Keys, ok, fatal \in BOOLEAN :
           gjs_keep_alive_remove_global_child(c, k, ok, fatal)

SpecGlobal == Init /\ [][NextGlobal]_vars

----------------------------------------------------------------------------
\* Properties

\* the notifier call finalize owes the entry e
Owed(e) == [k |-> e.k, notify |-> e.notify, child |-> e.child,
            data |-> e.data, during |-> "finalize", was |-> "live"]

\* C1: once finalize has released a registry, the notifier of every entry
\* the registry held when finalize began has been called exactly once with
\* that entry's handle and data (an entry whose notify is NULL has no
\* notifier and gets no call), nothing else has been called, and the table
\* was empty when it was destroyed.
C1_FinalizeDrainsOnce ==
    \A o \in Objs :
        priv[o].st = "freed" /\ gc.obj = o =>
            /\ priv[o].children = {}
            /\ \A e \in gc.start :
                   CopiesIn(Owed(e), calls) = IF e.notify # NULL THEN 1 ELSE 0
            /\ BagToSet(calls) \subseteq {Owed(e) : e \in gc.start}

\* a finalized registry that held two entries with different notifiers
C1_Witness ==
    \E o \in Objs :
        /\ priv[o].st = "freed" /\ gc.obj = o
        /\ \E e1, e2 \in gc.start :
               e1.notify # NULL /\ e2.notify # NULL /\ e1.notify # e2.notify
        /\ BagCardinality(calls) = 2

\* C2: every notifier call was made while finalize was running, on a Child
\* that was in the table when finalize began and had not been freed, and no
\* Child has been the subject of two calls; outside finalize (after any
\* run of add, remove and trace) no notifier has been called.
C2_NotifyOnlyInFinalize ==
    /\ \A r \in BagToSet(calls) :
           /\ CopiesIn(r, calls) = 1
           /\ r.during = "finalize"
           /\ r.was = "live"
           /\ \E e \in gc.start : r = Owed(e)
           /\ \A q \in BagToSet(calls) : q.k = r.k => q = r
    /\ (gc.kind # "finalize" /\ \A o \in Objs : priv[o].st # "freed") =>
           calls = EmptyBag

\* finalize has notified the one entry left after an entry added before it
\* was removed
C2_Witness ==
    /\ BagCardinality(calls) = 1
    /\ \E e \in gc.start :
           /\ gc.start = {e}
           /\ \E s \in Slots : s < e.k /\ fate[s] = "unused"

C5_RemoveAbsentIsNoOp ==
    (last.op = "remove_child" /\ last.mode = "open" /\ ~last.held) =>
        /\ last.ret = "ok" /\ ~aborted
        /\ last.val = Miss /\ ~last.changed
        /\ calls = EmptyBag

\* an absent triple has just been removed from a registry that holds others
C5_Witness ==
    /\ last.op = "remove_child" /\ last.mode = "open" /\ ~last.held
    /\ last.ret = "ok"
    /\ Cardinality(priv[last.on].children) = 2

\* the step in which a trace pass returns
TraceReturns == gc.kind = "trace" /\ gc'.kind = "idle" /\ ~aborted'

\* the state a trace pass returns to, as the entry points read it
After == [slot |-> slot', class_found |-> class_found', objsOf |-> objsOf',
          priv |-> priv', heap |-> heap', fate |-> fate']

Moved(e) == gc.reloc[e.child] # e.child

MovedTo(e) == [TripleOf(e) EXCEPT !.child = gc.reloc[e.child]]

\* C6 as claimed: after a pass that moved the entry e, a remove under the
\* new handle removes e and a remove under the old handle does nothing.
C6_StaleRemoveIsNoOp ==
    [][TraceReturns =>
          \A e \in gc.start : Moved(e) =>
              LET rn == remove_child(After, gc.obj, MovedTo(e), FALSE)
                  ro == remove_child(After, gc.obj, TripleOf(e), FALSE)
              IN /\ e.k \in HTKeys(priv'[gc.obj].children)
                 /\ rn.ret = "ok" /\ rn.val = Hit
                 /\ HTKeys(rn.st.priv[gc.obj].children)
                        = HTKeys(priv'[gc.obj].children) \ {e.k}
                 /\ ro.ret = "ok" /\ ro.val = Miss /\ ro.st = After]_vars

\* C6: after a pass that moved the entry e, a remove under the new handle
\* removes e and nothing else; a remove under the old handle leaves e in the
\* table, and does nothing at all unless the same pass moved another entry
\* with the same notifier and data to the old address.
C6_RemoveAfterRelocation ==
    [][TraceReturns =>
          \A e \in gc.start : Moved(e) =>
              LET rn == remove_child(After, gc.obj, MovedTo(e), FALSE)
                  ro == remove_child(After, gc.obj, TripleOf(e), FALSE)
              IN /\ e.k \in HTKeys(priv'[gc.obj].children)
                 /\ rn.ret = "ok" /\ rn.val = Hit
                 /\ HTKeys(rn.st.priv[gc.obj].children)
                        = HTKeys(priv'[gc.obj].children) \ {e.k}
                 /\ ro.ret = "ok"
                 /\ e.k \in HTKeys(ro.st.priv[gc.obj].children)
                 /\ (\A e2 \in gc.start : MovedTo(e2) # TripleOf(e)) =>
                        ro.val = Miss /\ ro.st = After]_vars

\* a pass has returned after moving both entries of the table
C6_Witness ==
    /\ last.op = "trace_done" /\ last.val = 2
    /\ Cardinality(priv[last.on].children) = 2

\* C7: a pass in which no handle changes returns with the table holding
\* the Child records, and so the triples, it held when the pass began.
C7_TracePreservesMembership ==
    [][(TraceReturns /\ \A e \in gc.start : ~Moved(e)) =>
          /\ Entries(priv'[gc.obj].children, heap') = gc.start
          /\ Triples(priv'[gc.obj].children, heap') = {TripleOf(e) : e \in gc.start}
          /\ Cardinality(priv'[gc.obj].children) = Cardinality(gc.start)]_vars

\* a pass over two entries has returned without moving any
C7_Witness ==
    /\ last.op = "trace_done" /\ last.val = 0
    /\ Cardinality(priv[last.on].children) = 2

\* the (handle, data) pairs of the entries of o registered under f
PairsOf(o, f) ==
    {[child |-> heap[s].child, data |-> heap[s].data] :
        s \in {t \in HTKeys(priv[o].children) : heap[t].notify = f}}

\* C8: when iterator_next(f) returns false, the calls of the traversal have
\* returned the (handle, data) pair of every entry whose notifier is f, each
\* once, and no other pair.
C8_FilteredIteration ==
    iter.st = "done" =>
        /\ iter.yielded = SetToBag(PairsOf(iter.obj, iter.filter))
        /\ Cardinality(PairsOf(iter.obj, iter.filter))
               = Cardinality({s \in HTKeys(priv[iter.obj].children) :
                                  heap[s].notify = iter.filter})

\* a traversal of a registry with notifiers {A, A, B} has returned the two
\* entries of A
C8_Witness ==
    /\ iter.st = "done" /\ iter.filter = 1
    /\ BagCardinality(iter.yielded) = 2
    /\ Cardinality(priv[iter.obj].children) = 3
    /\ \E s \in HTKeys(priv[iter.obj].children) : heap[s].notify = 2

\* C9: no context has had more than one registry constructed; once one is
\* constructed the slot of the context records it, get_global returns it
\* and get_global_if_exists returns it.
C9_OneRegistryPerContext ==
    /\ \A c \in Contexts :
           /\ Cardinality(objsOf[c]) <= 1
           /\ objsOf[c] = IF slot[c] = NULL THEN {} ELSE {slot[c]}
           /\ \A d \in Contexts : d # c => objsOf[c] \cap objsOf[d] = {}
    /\ (last.op = "get_global" /\ last.ret = "ok") =>
           last.val # NULL /\ objsOf[last.on] = {last.val}
    /\ (last.op = "get_global_if_exists" /\ objsOf[last.on] # {}) =>
           objsOf[last.on] = {last.val}

\* both contexts have their registry, and a later get_global has returned
\* the one recorded
C9_Witness ==
    /\ \A c \in Contexts : objsOf[c] # {}
    /\ last.op = "get_global" /\ last.ret = "ok" /\ ~last.changed

\* C10 as claimed: remove_global_child on a context without a registry
\* terminates the process and constructs no registry.
C10_RemoveGlobalWithoutRegistryIsFatal ==
    (last.op = "remove_global_child" /\ last.mode = "none") =>
        last.ret = "abort" /\ aborted /\ objsOf[last.on] = {}

\* C11: get_global_if_exists returns what the slot of the context records,
\* NULL when no registry was made for it, and leaves the slot, the class
\* and every registry as they were.
C11_GetIfExistsReadsOnly ==
    last.op = "get_global_if_exists" =>
        /\ last.ret = "ok" /\ ~aborted
        /\ ~last.changed
        /\ last.val = slot[last.on]
        /\ objsOf[last.on] = IF last.val = NULL THEN {} ELSE {last.val}
        /\ ~class_found[last.on] => last.val = NULL

\* a probe of a context without a registry has returned NULL while the
\* other context has its registry
C11_Witness ==
    /\ last.op = "get_global_if_exists" /\ last.val = NULL
    /\ slot[last.on] = NULL
    /\ \E d \in Contexts : slot[d] # NULL

\* C12: outside trace and finalize, an add of a triple k the registry does
\* not hold returns normally with the table holding the Child records it
\* held, unchanged, and one more whose triple is k; nothing else of the
\* registry changes.
C12_AddInsertsExactlyOne ==
    /\ \A o \in Registries :
           (~priv[o].inside_trace /\ ~priv[o].inside_finalize) =>
               \A k \in Keys \ Triples(priv[o].children, heap) :
                   LET r == add_child(Cur, o, k, FALSE)
                       T == priv[o].children
                       T2 == r.st.priv[o].children
                   IN /\ r.ret = "ok"
                      /\ Triples(T2, r.st.heap) = Triples(T, heap) \cup {k}
                      /\ Cardinality(T2) = Cardinality(T) + 1
                      /\ T \subseteq T2
                      /\ Entries(T, heap) \subseteq Entries(T2, r.st.heap)
                      /\ \A n \in T2 \ T : r.st.heap[n.k] = k /\ fate[n.k] # "live"
                      /\ r.st.priv = [priv EXCEPT ![o].children = T2]
    /\ (last.op = "add_child" /\ last.mode = "open" /\ ~last.held) =>
           last.ret = "ok" /\ last.changed /\ ~aborted

\* an add of a new triple has returned from a registry that held one entry
C12_Witness ==
    /\ last.op = "add_child" /\ last.mode = "open" /\ ~last.held
    /\ last.ret = "ok"
    /\ Cardinality(priv[last.on].children) = 2

\* C13: while a notifier called by finalize runs, the Child it was called
\* for is out of the table, no lookup of its triple finds a node, and the
\* Child has not been freed yet.
C13_RemovedBeforeNotified ==
    (gc.kind = "finalize" /\ gc.cur # NULL) =>
        /\ gc.cur \notin HTKeys(priv[gc.obj].children)
        /\ HTMatch(priv[gc.obj].children, heap, heap[gc.cur]) = {}
        /\ heap[gc.cur] \notin Triples(priv[gc.obj].children, heap)
        /\ fate[gc.cur] = "live" /\ heap[gc.cur].notify # NULL
        /\ \E e \in gc.start : e.k = gc.cur /\ CopiesIn(Owed(e), calls) = 1

\* a notifier runs while the table still holds another entry
C13_Witness ==
    /\ gc.kind = "finalize" /\ gc.cur # NULL
    /\ priv[gc.obj].children # {}

\* the Child records staged for reinsertion
Staged == {gc.reinsert[i] : i \in 1..Len(gc.reinsert)}

\* C14: while a pass scans, the moved Childs it has met are staged, out of
\* the table and not freed; when the pass returns the table holds the
\* Child records it held at the start, each with its handle mapped by the
\* relocation, so the triples are the image of the triples at the start, and
\* as many.
C14_TraceRelocatesByImage ==
    [][/\ gc.kind = "trace" =>
              /\ Staged \cap HTKeys(priv[gc.obj].children) = {}
              /\ Staged = {e.k : e \in {x \in gc.start : x.k \in gc.visited /\ Moved(x)}}
              /\ \A t \in Staged : fate[t] = "live"
       /\ TraceReturns =>
              /\ Entries(priv'[gc.obj].children, heap')
                     = {[e EXCEPT !.child = gc.reloc[e.child]] : e \in gc.start}
              /\ Triples(priv'[gc.obj].children, heap') = {MovedTo(e) : e \in gc.start}
              /\ Cardinality(Triples(priv'[gc.obj].children, heap'))
                     = Cardinality(gc.start)
              /\ \A n \in priv'[gc.obj].children :
                     n.h = child_hash(heap'[n.k]) /\ fate'[n.k] = "live"]_vars

\* a pass has returned after moving two entries of one notifier and data
\* each to the address the other had
C14_Witness ==
    /\ last.op = "trace_done" /\ last.val = 2
    /\ \E a, b \in Entries(priv[last.on].children, heap) :
           /\ a.child = 1 /\ b.child = 2
           /\ a.notify = b.notify /\ a.data = b.data

\* what the tracer is shown of the entry e
Shown(e) == [k |-> e.k, child |-> e.child]

\* C15: in a trace pass the tracer has been shown, once each and with the
\* handle it had at the start, exactly the entries the scan has passed; the
\* scan passes only entries the table held at the start, and when it ends
\* it has passed every one of them.
C15_EachEntryTracedOnce ==
    gc.kind = "trace" =>
        /\ visits = SetToBag({Shown(e) : e \in {x \in gc.start : x.k \in gc.visited}})
        /\ gc.visited \subseteq {e.k : e \in gc.start}
        /\ HTKeys(priv[gc.obj].children) \cup Staged = {e.k : e \in gc.start}
        /\ HTKeys(priv[gc.obj].children) \subseteq gc.visited =>
               /\ gc.visited = {e.k : e \in gc.start}
               /\ \A e \in gc.start : CopiesIn(Shown(e), visits) = 1
               /\ BagCardinality(visits) = Cardinality(gc.start)

\* the scan of a pass that moved both entries of the table has ended
C15_Witness ==
    /\ gc.kind = "trace"
    /\ HTKeys(priv[gc.obj].children) \subseteq gc.visited
    /\ BagCardinality(visits) = 2 /\ Len(gc.reinsert) = 2

\* C16: of a live registry, inside_trace is set exactly while its trace
\* pass runs and inside_finalize exactly while its finalize runs, so both
\* are clear when neither runs; a trace entered with inside_trace set
\* aborts on the assertion; the flag is set when a pass has begun and clear
\* when it has returned.
C16_FlagsFollowCallbacks ==
    /\ \A o \in Objs : priv[o].st = "live" =>
           /\ priv[o].inside_trace <=> (gc.kind = "trace" /\ gc.obj = o)
           /\ priv[o].inside_finalize <=> (gc.kind = "finalize" /\ gc.obj = o)
    /\ (last.op = "trace" /\ last.mode = "guarded") =>
           last.ret = "abort" /\ aborted
    /\ (last.op = "trace" /\ last.mode = "open") =>
           last.ret = "ok" /\ ~aborted /\ priv[last.on].inside_trace
    /\ last.op = "trace_done" =>
           priv[last.on].st = "live" /\ ~priv[last.on].inside_trace

\* a trace was entered while a pass over the same registry was running
C16_Witness ==
    last.op = "trace" /\ last.mode = "guarded" /\ aborted

\* C17: a live registry never holds two Child records with the same
\* (notify, child, data), every node carries the hash of its key, and
\* child_equal holds of two triples exactly when all three components agree.
C17_UniqueByTriple ==
    /\ \A o \in Objs : priv[o].st = "live" =>
           /\ \A n1, n2 \in priv[o].children :
                  child_equal(heap[n1.k], heap[n2.k]) => n1 = n2
           /\ Cardinality(Triples(priv[o].children, heap))
                  = Cardinality(priv[o].children)
           /\ \A n \in priv[o].children : n.h = child_hash(heap[n.k])
    /\ \A k1, k2 \in Keys : child_equal(k1, k2) <=> k1 = k2

\* after a trace pass the registry holds two entries that differ in data
\* alone
C17_Witness ==
    /\ last.op = "trace_done"
    /\ \E a, b \in Entries(priv[last.on].children, heap) :
           a.notify = b.notify /\ a.child = b.child /\ a.data # b.data

\* the triples on the handle of k, other than k
OnHandleOf(k) == {j \in Keys : j.child = k.child /\ j # k}

\* C18: outside trace and finalize, a registry that holds a triple takes an
\* add of another triple on the same handle and then holds both; of two
\* held triples on one handle, a remove of one takes out that one and leaves
\* the other; and a finalize of a registry that held two entries on one
\* handle has called the notifier of each once (an entry whose notify is
\* NULL has no notifier to call).
C18_SameHandleCoexists ==
    /\ \A o \in Registries :
           (~priv[o].inside_trace /\ ~priv[o].inside_finalize) =>
               \A k1 \in Triples(priv[o].children, heap) : \A k2 \in OnHandleOf(k1) :
                   IF k2 \notin Triples(priv[o].children, heap)
                   THEN LET r == add_child(Cur, o, k2, FALSE) IN
                        /\ r.ret = "ok"
                        /\ {k1, k2} \subseteq Triples(r.st.priv[o].children, r.st.heap)
                        /\ Cardinality(r.st.priv[o].children)
                               = Cardinality(priv[o].children) + 1
                   ELSE LET r == remove_child(Cur, o, k1, FALSE) IN
                        /\ r.ret = "ok" /\ r.val = Hit
                        /\ k1 \notin Triples(r.st.priv[o].children, r.st.heap)
                        /\ k2 \in Triples(r.st.priv[o].children, r.st.heap)
                        /\ Cardinality(r.st.priv[o].children)
                               = Cardinality(priv[o].children) - 1
    /\ \A o \in Objs : (priv[o].st = "freed" /\ gc.obj = o) =>
           \A e1, e2 \in gc.start :
               (e1.child = e2.child /\ e1.k # e2.k) =>
                   /\ TripleOf(e1) # TripleOf(e2)
                   /\ \A e \in {e1, e2} :
                          CopiesIn(Owed(e), calls) = IF e.notify # NULL THEN 1 ELSE 0

\* a registry that held two entries of one notifier on one handle, with
\* different data, has been finalized and the notifier called twice
C18_Witness ==
    /\ gc.obj # NULL /\ priv[gc.obj].st = "freed"
    /\ BagCardinality(calls) = 2
    /\ \E e1, e2 \in gc.start :
           /\ e1.child = e2.child /\ e1.notify = e2.notify /\ e1.data # e2.data
           /\ e1.notify # NULL

\* C19: a finalize entered on a live registry leads, unless the process
\* aborts, to the registry freed with its table empty; a trace pass entered
\* on a live registry leads, unless the process aborts, to the collector
\* idle with the registry live and inside_trace clear.
C19_CallbacksRunToCompletion ==
    /\ gc.kind = "finalize"
           ~> (aborted \/ (gc.kind = "idle" /\ gc.obj # NULL
                             /\ priv[gc.obj].st = "freed"
                             /\ priv[gc.obj].children = {}))
    /\ gc.kind = "trace"
           ~> (aborted \/ (gc.kind = "idle" /\ last.op = "trace_done"
                             /\ priv[last.on].st = "live"
                             /\ ~priv[last.on].inside_trace))

\* a finalize of a registry of two entries, one of them without a
\* notifier, has run to its end
C19_Witness ==
    /\ gc.kind = "idle" /\ gc.obj # NULL /\ priv[gc.obj].st = "freed"
    /\ Cardinality(gc.start) = 2
    /\ BagCardinality(calls) = 1

\* the entries a callback in progress has yet to reach
Pending == HTKeys(priv[gc.obj].children) \ gc.visited

\* C20: an add or remove made while a flag is set, and an add of a triple
\* the registry holds, return after a critical warning without having
\* changed a table, a flag or a Child record, unless criticals are fatal;
\* and throughout a finalize or a trace pass, whatever calls were rejected
\* meanwhile, the flags are as the callback set them and the entries it has
\* yet to reach are the entries of the start it has not reached, unchanged.
C20_RejectedMutationChangesNothing ==
    /\ (/\ last.op \in {"add_child", "remove_child"}
        /\ last.mode = "guarded" \/ (last.mode = "open" /\ last.op = "add_child" /\ last.held)
        /\ ~aborted) =>
           last.ret = "critical" /\ ~last.changed
    /\ last.ret = "critical" =>
           /\ last.op \in {"add_child", "remove_child"}
           /\ ~last.changed
           /\ priv[last.on].st = "live"
    /\ gc.kind = "finalize" =>
           /\ priv[gc.obj].inside_finalize /\ ~priv[gc.obj].inside_trace
           /\ Pending = {e.k : e \in gc.start} \ gc.visited
           /\ HTKeys(priv[gc.obj].children) \cap gc.visited = {}
           /\ Entries(priv[gc.obj].children, heap) \subseteq gc.start
    /\ gc.kind = "trace" =>
           /\ priv[gc.obj].inside_trace /\ ~priv[gc.obj].inside_finalize
           /\ Pending = {e.k : e \in gc.start} \ gc.visited
           /\ \A e \in gc.start : e.k \in Pending => e \in Entries(priv[gc.obj].children, heap)

\* an add was rejected in the middle of the scan of a trace pass
C20_Witness ==
    /\ gc.kind = "trace" /\ gc.visited # {} /\ Pending # {}
    /\ last.op = "add_child" /\ last.ret = "critical"

=============================================================================
